---- MODULE Spec2Model ----
(***************************************************************************)
(* The bitmap font atlas generator: internal/gen/gen.go (the extended,     *)
(* 1-bit alpha variant, with the Fixed provider, the width oracle and the  *)
(* -eastasia flag) and its predecessor (the legacy RGBA variant, with the  *)
(* M+ and Baekmuk providers only).                                         *)
(*                                                                         *)
(* The canvas is 3072 x 4096 pixels and the code point range is 0..0xFFFF, *)
(* as in the program.  The canvas and the packed buffer are kept sparsely: *)
(* the canvas as the set of its pixels with nonzero alpha, the buffer as   *)
(* the function from the indices of its nonzero bytes to their values.     *)
(* The glyph tables of the providers and the answers of the width oracle   *)
(* are inputs, drawn in Init from small sets.                              *)
(***************************************************************************)
EXTENDS Integers, FiniteSets, Sequences

VARIABLES
    variant,       \* "extended" (internal/gen/gen.go) or "legacy"
    flagEastAsia,  \* *flagEastAsia
    fixedTbl,      \* the glyph table of the Fixed provider: rune -> glyph
    mplusTbl,      \* the glyph table of the M+ (Proportional) provider
    baekmukTbl,    \* the glyph table of the Baekmuk (Supplementary) provider
    ambiguous,     \* the runes the width oracle classifies East-Asian-Ambiguous
    pc,            \* the position of run/main
    r,             \* the loop variable of addGlyphs
    img,           \* the canvas: the set of pixels <<x, y>> with alpha # 0
    drawn,         \* the draw.Draw calls made so far: rune, glyph and area written
    as,            \* the packed buffer (rgba in the legacy variant), sparse
    defers,        \* the calls run has deferred, in the order of the defer statements
    fout,          \* the output file: "none", "open", "closed"
    cw,            \* the gzip writer: "none", "open", "closed"
    failed,        \* the I/O steps that returned an error so far
    err,           \* what run returns: "unset", "nil", "error"
    exit           \* how main ends: "running", "ok", "panic"

vars == <<variant, flagEastAsia, fixedTbl, mplusTbl, baekmukTbl, ambiguous,
          pc, r, img, drawn, as, fout, cw, defers, failed, err, exit>>

inputs == <<variant, flagEastAsia, fixedTbl, mplusTbl, baekmukTbl, ambiguous>>

----------------------------------------------------------------------------
(* Program constants *)

glyphWidth == 12
glyphHeight == 16
GridSize == 256
RuneCount == 65536
BoxDrawingLo == 9472
BoxDrawingHi == 9599
HalfwidthKatakanaLo == 65381
HalfwidthKatakanaHi == 65439
BaselineMargin == 4

fontTypeNone == 0
fontTypeFixed == 1
fontTypeMPlus == 2
fontTypeBaekmuk == 3

(* Bounds of the inputs *)

\* The widest and the tallest glyph a provider returns (the cell is 12 x 16).
MaxGlyphW == 13
MaxGlyphH == 17
\* The largest origin offset of a glyph, to either side of the nominal one.
MaxOff == 1

----------------------------------------------------------------------------
(* Providers and the width oracle *)

\* fixed.Glyph(r, 12), mplus.Glyph(r, 12) / mplus.Glyph(r), baekmuk.Glyph(..):
\* whether the provider declares r.
fixedGlyphOk(q) == q \in DOMAIN fixedTbl
mplusGlyphOk(q) == q \in DOMAIN mplusTbl
baekmukGlyphOk(q) == q \in DOMAIN baekmukTbl

\* width.LookupRune(r).Kind() == width.EastAsianAmbiguous
isEastAsianAmbiguous(q) == q \in ambiguous

\* The bitmap of a provider's glyph at its local pixel (i, j).  The three
\* providers draw different patterns, so that a canvas pixel tells its source.
Ink(ft, i, j) ==
    CASE ft = fontTypeFixed -> TRUE
      [] ft = fontTypeMPlus -> (i + j) % 2 = 0
      [] ft = fontTypeBaekmuk -> (i + j) % 3 # 1
      [] OTHER -> FALSE

----------------------------------------------------------------------------
(* The Glyph Resolver *)

getFontTypeNoBoxRule(q) ==
    IF HalfwidthKatakanaLo <= q /\ q <= HalfwidthKatakanaHi THEN fontTypeMPlus
    ELSE IF isEastAsianAmbiguous(q)
         THEN (IF flagEastAsia THEN fontTypeMPlus ELSE fontTypeFixed)
    ELSE IF fixedGlyphOk(q) THEN fontTypeFixed
    ELSE IF mplusGlyphOk(q) THEN fontTypeMPlus
    ELSE IF baekmukGlyphOk(q) THEN fontTypeBaekmuk
    ELSE fontTypeNone

getFontTypeFlagIgnored(q) ==
    IF BoxDrawingLo <= q /\ q <= BoxDrawingHi THEN fontTypeBaekmuk
    ELSE IF HalfwidthKatakanaLo <= q /\ q <= HalfwidthKatakanaHi THEN fontTypeMPlus
    ELSE IF isEastAsianAmbiguous(q) THEN fontTypeFixed
    ELSE IF fixedGlyphOk(q) THEN fontTypeFixed
    ELSE IF mplusGlyphOk(q) THEN fontTypeMPlus
    ELSE IF baekmukGlyphOk(q) THEN fontTypeBaekmuk
    ELSE fontTypeNone

\* getFontType of internal/gen/gen.go
getFontTypeExtended(q) ==
    IF BoxDrawingLo <= q /\ q <= BoxDrawingHi THEN fontTypeBaekmuk
    ELSE IF HalfwidthKatakanaLo <= q /\ q <= HalfwidthKatakanaHi THEN fontTypeMPlus
    ELSE IF isEastAsianAmbiguous(q)
         THEN (IF flagEastAsia THEN fontTypeMPlus ELSE fontTypeFixed)
    ELSE IF fixedGlyphOk(q) THEN fontTypeFixed
    ELSE IF mplusGlyphOk(q) THEN fontTypeMPlus
    ELSE IF baekmukGlyphOk(q) THEN fontTypeBaekmuk
    ELSE fontTypeNone

getFontTypeLegacyBaekmukFirst(q) ==
    IF BoxDrawingLo <= q /\ q <= BoxDrawingHi THEN fontTypeBaekmuk
    ELSE IF baekmukGlyphOk(q) THEN fontTypeBaekmuk
    ELSE IF mplusGlyphOk(q) THEN fontTypeMPlus
    ELSE fontTypeNone

\* getFontType of the legacy variant
getFontTypeLegacy(q) ==
    IF BoxDrawingLo <= q /\ q <= BoxDrawingHi THEN fontTypeBaekmuk
    ELSE IF mplusGlyphOk(q) THEN fontTypeMPlus
    ELSE IF baekmukGlyphOk(q) THEN fontTypeBaekmuk
    ELSE fontTypeNone

getFontType(q) ==
    IF variant = "extended" THEN getFontTypeExtended(q) ELSE getFontTypeLegacy(q)

NotFound == [ok |-> FALSE, panic |-> FALSE, from |-> fontTypeNone]
Found(ft, tbl, q) == [ok |-> TRUE, panic |-> FALSE, from |-> ft, g |-> tbl[q]]
Panicked == [ok |-> FALSE, panic |-> TRUE, from |-> fontTypeNone]

\* a getGlyph that falls through to the next provider when the selected one
\* does not define the rune
getGlyphFallThrough(q) ==
    IF getFontType(q) = fontTypeNone THEN NotFound
    ELSE IF variant = "extended" /\ fixedGlyphOk(q) THEN Found(fontTypeFixed, fixedTbl, q)
    ELSE IF mplusGlyphOk(q) THEN Found(fontTypeMPlus, mplusTbl, q)
    ELSE IF baekmukGlyphOk(q) THEN Found(fontTypeBaekmuk, baekmukTbl, q)
    ELSE NotFound

\* getGlyph of both variants; the legacy case fontTypeFixed is empty
getGlyph(q) ==
    LET ft == getFontType(q) IN
    CASE ft = fontTypeNone -> NotFound
      [] ft = fontTypeFixed ->
            IF variant = "extended" /\ fixedGlyphOk(q)
            THEN Found(fontTypeFixed, fixedTbl, q) ELSE NotFound
      [] ft = fontTypeMPlus ->
            IF mplusGlyphOk(q) THEN Found(fontTypeMPlus, mplusTbl, q) ELSE NotFound
      [] ft = fontTypeBaekmuk ->
            IF baekmukGlyphOk(q) THEN Found(fontTypeBaekmuk, baekmukTbl, q) ELSE NotFound
      [] OTHER -> Panicked

----------------------------------------------------------------------------
(* The Atlas Compositor *)

CanvasW == glyphWidth * GridSize
CanvasH == glyphHeight * GridSize

Max(a, b) == IF a >= b THEN a ELSE b
Min(a, b) == IF a <= b THEN a ELSE b

\* the top-left corner of the cell of rune q
CellX(q) == (q % GridSize) * glyphWidth
CellY(q) == (q \div GridSize) * glyphHeight

dstXShifted(q, g) == (q % GridSize) * glyphWidth + g.Width

dstXNarrowGrid(q, g) ==
    IF variant = "extended" THEN (q % (GridSize - 1)) * glyphWidth
    ELSE (q % (GridSize - 1)) * glyphWidth + g.X

\* dstX and dstY of addGlyphs: flush to the cell in the extended variant,
\* offset by the glyph's origin in the legacy one
dstX(q, g) ==
    IF variant = "extended" THEN (q % GridSize) * glyphWidth
    ELSE (q % GridSize) * glyphWidth + g.X

dstYNoMargin(q, g) ==
    IF variant = "extended" THEN (q \div GridSize) * glyphHeight + glyphHeight
    ELSE (q \div GridSize) * glyphHeight + ((glyphHeight - g.Height) - g.Y)

dstY(q, g) ==
    IF variant = "extended" THEN (q \div GridSize) * glyphHeight
    ELSE (q \div GridSize) * glyphHeight
            + ((glyphHeight - g.Height) - BaselineMargin - g.Y)

\* dstR as draw.Draw clips it to the bounds of the canvas
dstR(q, g) ==
    [x0 |-> Max(dstX(q, g), 0), y0 |-> Max(dstY(q, g), 0),
     x1 |-> Min(dstX(q, g) + g.Width, CanvasW),
     y1 |-> Min(dstY(q, g) + g.Height, CanvasH)]

\* The canvas pixels draw.Draw(img, dstR, g, g.Bounds().Min, draw.Over) makes
\* opaque: those of the clipped rectangle whose source pixel is opaque.
DrawOver(q, gl) ==
    LET rect == dstR(q, gl.g) IN
    {p \in (rect.x0 .. rect.x1 - 1) \X (rect.y0 .. rect.y1 - 1) :
        Ink(gl.from, p[1] - dstX(q, gl.g), p[2] - dstY(q, gl.g))}

\* The runes some provider declares: getGlyph finds a glyph for no other.
Declared == DOMAIN fixedTbl \cup DOMAIN mplusTbl \cup DOMAIN baekmukTbl

\* The runes from q on for which the loop of addGlyphs does not `continue`.
Pending(q) == {s \in Declared : s >= q /\ s < RuneCount /\ getGlyph(s).ok}

Least(S) == CHOOSE s \in S : \A t \in S : s <= t

----------------------------------------------------------------------------
(* The Packer *)

\* idx := w*j + i
PixelIndex(p) == CanvasW * p[2] + p[1]

Pow2(n) == IF n = 0 THEN 1 ELSE IF n = 1 THEN 2 ELSE IF n = 2 THEN 4
           ELSE IF n = 3 THEN 8 ELSE IF n = 4 THEN 16 ELSE IF n = 5 THEN 32
           ELSE IF n = 6 THEN 64 ELSE 128

BitShiftLsbFirst(idx) == idx % 8

\* the shift count of `1 << uint(7-idx%8)`
BitShift(idx) == 7 - (idx % 8)

RECURSIVE OrBits(_, _, _)
\* as[b] after `as[idx/8] |= 1 << uint(7-idx%8)` for every idx of idxs in byte b
OrBits(idxs, b, k) ==
    IF k = 8 THEN 0
    ELSE (IF 8 * b + k \in idxs THEN Pow2(BitShift(8 * b + k)) ELSE 0)
         + OrBits(idxs, b, k + 1)

\* The 1-bit packing loop of run (extended variant): the nonzero bytes of as.
PackAlpha(image) ==
    LET idxs == {PixelIndex(p) : p \in image}
        bytes == {i \div 8 : i \in idxs}
    IN [b \in bytes |-> OrBits(idxs, b, 0)]

\* byte(c >> 8) of a channel of an opaque canvas pixel; every glyph pixel is
\* color.Alpha{0xff} or color.Alpha{0}
OpaqueChannel == 255

\* The RGBA8 packing loop of run (legacy variant): the nonzero bytes of rgba.
PackRGBA(image) ==
    LET bytes == {4 * PixelIndex(p) + c : p \in image, c \in 0 .. 3}
    IN [b \in bytes |-> OpaqueChannel]

\* len(as): w*h/8, and len(rgba): w*h*4
BufferLen == IF variant = "extended" THEN (CanvasW * CanvasH) \div 8
             ELSE CanvasW * CanvasH * 4

\* as[b], zero where the sparse buffer has no entry
ByteAt(buf, b) == IF b \in DOMAIN buf THEN buf[b] ELSE 0

----------------------------------------------------------------------------
(* Inputs *)

EmptyTbl == [q \in {} |-> 0]

\* a glyph as the M+ and Baekmuk 12px fonts have them: 6 x 13, descent 2
StdGlyph == [Width |-> 6, Height |-> 13, X |-> 0, Y |-> -2]

GlyphWidths == {6, glyphWidth, MaxGlyphW}
GlyphHeights == {glyphHeight, MaxGlyphH}
GlyphXs == {-MaxOff, 0, MaxOff}
GlyphYs == {-BaselineMargin - MaxOff, -BaselineMargin, 0}

GlyphShapes ==
    [Width : GlyphWidths, Height : GlyphHeights, X : GlyphXs, Y : GlyphYs]

\* Runes at both ends of, and next to, the ranges getFontType names, and at
\* the corners of the canvas.
SampleRunes == {0, 65, 161, 255, 9471, 9472, 9599, 9600,
                65380, 65381, 65439, 65440, 65535}

\* The oracle's answer is left open on every sample rune outside Basic Latin,
\* which the Unicode tables classify Narrow or Neutral.
AmbiguousCandidates == SampleRunes \ (0 .. 127)

\* Runes with cells next to each other (65 | 66, 65 over 321) and at the
\* right edge of the canvas (255).
AtlasRunes == {65, 66, 255, 321}

\* The atlas runes that width.LookupRune classifies East-Asian-Ambiguous:
\* U+0141 is; U+0041 and U+0042 are Narrow and U+00FF is Neutral.
AmbiguousAtlasRunes == {321}

Providers == {fontTypeFixed, fontTypeMPlus, fontTypeBaekmuk}

\* the table of provider ft, given which providers declare which glyphs
TblOf(ft, entries) ==
    [q \in {e.r : e \in {e \in entries : e.ft = ft}} |->
        (CHOOSE e \in entries : e.ft = ft /\ e.r = q).g]

Start ==
    /\ pc = "addGlyphs"
    /\ r = 0
    /\ img = {}
    /\ drawn = {}
    /\ as = EmptyTbl
    /\ fout = "none"
    /\ cw = "none"
    /\ defers = <<>>
    /\ failed = {}
    /\ err = "unset"
    /\ exit = "running"

\* One rune, declared by any subset of the providers with the standard glyph,
\* any answer of the oracle for it, either flag.  The legacy variant has no
\* flag and no oracle, and never consults the Fixed table.
InitResolve ==
    /\ variant \in {"extended", "legacy"}
    /\ flagEastAsia \in (IF variant = "extended" THEN BOOLEAN ELSE {FALSE})
    /\ \E p \in SampleRunes, cov \in SUBSET Providers :
          /\ fixedTbl = [q \in (IF fontTypeFixed \in cov THEN {p} ELSE {}) |-> StdGlyph]
          /\ mplusTbl = [q \in (IF fontTypeMPlus \in cov THEN {p} ELSE {}) |-> StdGlyph]
          /\ baekmukTbl = [q \in (IF fontTypeBaekmuk \in cov THEN {p} ELSE {}) |-> StdGlyph]
          /\ ambiguous \in (IF variant = "extended"
                            THEN SUBSET ({p} \cap AmbiguousCandidates) ELSE {{}})
    /\ Start

\* One rune with a glyph of any shape from one provider and, possibly, a second
\* rune with the standard glyph from the M+ provider.  The oracle answers for
\* the atlas runes as the width tables do; the legacy variant has no oracle.
InitAtlas ==
    /\ variant \in {"extended", "legacy"}
    /\ flagEastAsia \in (IF variant = "extended" THEN BOOLEAN ELSE {FALSE})
    /\ ambiguous = (IF variant = "extended" THEN AmbiguousAtlasRunes ELSE {})
    /\ \E p \in AtlasRunes, ft \in Providers, g \in GlyphShapes,
          second \in SUBSET AtlasRunes :
          /\ Cardinality(second) <= 1
          /\ p \notin second
          /\ LET entries == {[ft |-> ft, r |-> p, g |-> g]}
                            \cup {[ft |-> fontTypeMPlus, r |-> s, g |-> StdGlyph] : s \in second}
             IN /\ fixedTbl = TblOf(fontTypeFixed, entries)
                /\ mplusTbl = TblOf(fontTypeMPlus, entries)
                /\ baekmukTbl = TblOf(fontTypeBaekmuk, entries)
    /\ Start

----------------------------------------------------------------------------
(* addGlyphs, run and main *)

\* One iteration of the loop of addGlyphs that draws: the iterations before
\* it `continue` and leave the canvas as it is.
AddGlyph ==
    /\ pc = "addGlyphs"
    /\ Pending(r) # {}
    /\ LET q == Least(Pending(r))
           gl == getGlyph(q)
       IN /\ img' = img \cup DrawOver(q, gl)
          /\ drawn' = drawn \cup {[r |-> q, from |-> gl.from, g |-> gl.g, rect |-> dstR(q, gl.g)]}
          /\ r' = q + 1
    /\ UNCHANGED <<inputs, pc, as, fout, cw, defers, failed, err, exit>>

\* The loop of addGlyphs runs out: no rune from r on has a glyph.
AddGlyphsDone ==
    /\ pc = "addGlyphs"
    /\ Pending(r) = {}
    /\ r' = RuneCount
    /\ pc' = "pack"
    /\ UNCHANGED <<inputs, img, drawn, as, fout, cw, defers, failed, err, exit>>

\* The packing loops of run.
Pack ==
    /\ pc = "pack"
    /\ as' = IF variant = "extended" THEN PackAlpha(img) ELSE PackRGBA(img)
    /\ pc' = "create"
    /\ UNCHANGED <<inputs, r, img, drawn, fout, cw, defers, failed, err, exit>>

\* fout, err := os.Create(*flagOutput); defer fout.Close()
Create ==
    /\ pc = "create"
    /\ \/ /\ fout' = "open"
          /\ defers' = Append(defers, "fout.Close")
          /\ pc' = "newWriter"
          /\ UNCHANGED <<failed, err>>
       \/ /\ failed' = failed \cup {"os.Create"}
          /\ err' = "error"
          /\ pc' = "return"
          /\ UNCHANGED <<fout, defers>>
    /\ UNCHANGED <<inputs, r, img, drawn, as, cw, exit>>

\* cw, err := gzip.NewWriterLevel(fout, gzip.BestCompression); defer cw.Close()
NewWriterLevel ==
    /\ pc = "newWriter"
    /\ \/ /\ cw' = "open"
          /\ defers' = Append(defers, "cw.Close")
          /\ pc' = "write"
          /\ UNCHANGED <<failed, err>>
       \/ /\ failed' = failed \cup {"gzip.NewWriterLevel"}
          /\ err' = "error"
          /\ pc' = "return"
          /\ UNCHANGED <<cw, defers>>
    /\ UNCHANGED <<inputs, r, img, drawn, as, fout, exit>>

\* cw.Write(as)
Write ==
    /\ pc = "write"
    /\ \/ /\ err' = "nil"
          /\ UNCHANGED failed
       \/ /\ failed' = failed \cup {"cw.Write"}
          /\ err' = "error"
    /\ pc' = "return"
    /\ UNCHANGED <<inputs, r, img, drawn, as, fout, cw, defers, exit>>

NextDeferredFifo(stack) == 1

\* the deferred call that runs next: the last one deferred
NextDeferred(stack) == Len(stack)

Without(stack, i) == [j \in 1 .. Len(stack) - 1 |-> IF j < i THEN stack[j] ELSE stack[j + 1]]

\* A deferred Close runs as run returns; the error it returns is dropped.
RunDeferred ==
    /\ pc = "return"
    /\ defers # <<>>
    /\ LET i == NextDeferred(defers) IN
          /\ defers' = Without(defers, i)
          /\ IF defers[i] = "cw.Close"
             THEN cw' = "closed" /\ fout' = fout
             ELSE fout' = "closed" /\ cw' = cw
          /\ \/ failed' = failed
             \/ failed' = failed \cup {defers[i]}
    /\ UNCHANGED <<inputs, pc, r, img, drawn, as, err, exit>>

\* run has returned: main panics on an error and ends normally otherwise.
Main ==
    /\ pc = "return"
    /\ defers = <<>>
    /\ exit' = IF err = "error" THEN "panic" ELSE "ok"
    /\ pc' = "exited"
    /\ UNCHANGED <<inputs, r, img, drawn, as, fout, cw, defers, failed, err>>

Next ==
    \/ AddGlyph
    \/ AddGlyphsDone
    \/ Pack
    \/ Create
    \/ NewWriterLevel
    \/ Write
    \/ RunDeferred
    \/ Main

\* the resolver, the whole of run and main, for one rune and its providers
Spec == InitResolve /\ [][Next]_vars

NextAtlas ==
    \/ AddGlyph
    \/ AddGlyphsDone
    \/ Pack

\* the compositor and the packer, for glyphs of every shape
SpecAtlas == InitAtlas /\ [][NextAtlas]_vars

----------------------------------------------------------------------------
(* The Glyph Resolver: properties *)

InBoxDrawing(q) == BoxDrawingLo <= q /\ q <= BoxDrawingHi
InHalfwidthKatakana(q) == HalfwidthKatakanaLo <= q /\ q <= HalfwidthKatakanaHi

\* The runes the properties of the resolver are checked at: both ranges
\* whole, the sample runes and every rune a provider declares.
CheckedRunes ==
    (BoxDrawingLo .. BoxDrawingHi) \cup (HalfwidthKatakanaLo .. HalfwidthKatakanaHi)
        \cup SampleRunes \cup AtlasRunes \cup Declared

Declares(ft, q) ==
    CASE ft = fontTypeFixed -> q \in DOMAIN fixedTbl
      [] ft = fontTypeMPlus -> q \in DOMAIN mplusTbl
      [] ft = fontTypeBaekmuk -> q \in DOMAIN baekmukTbl
      [] OTHER -> FALSE

\* C1: every code point of the Box-Drawing range [0x2500, 0x257F] is classified
\* Supplementary (Baekmuk), in both variants, whatever the providers declare
\* and whatever the flag.
C1_BoxDrawingIsBaekmuk ==
    \A q \in BoxDrawingLo .. BoxDrawingHi : getFontType(q) = fontTypeBaekmuk

\* A Box-Drawing rune that the Fixed and the M+ provider declare and Baekmuk
\* does not has been classified and run has ended.
C1_Witness ==
    /\ pc = "exited"
    /\ \E q \in BoxDrawingLo .. BoxDrawingHi :
          /\ fixedGlyphOk(q) /\ mplusGlyphOk(q) /\ ~baekmukGlyphOk(q)
          /\ getFontType(q) = fontTypeBaekmuk

\* C2 as stated: every East-Asian-Ambiguous code point is classified
\* Proportional when the flag is set and Fixed when it is not.
C2_AmbiguousFollowsFlag ==
    variant = "extended" =>
        \A q \in ambiguous :
            getFontType(q) = IF flagEastAsia THEN fontTypeMPlus ELSE fontTypeFixed

\* C2 amended: an East-Asian-Ambiguous code point outside the Box-Drawing and
\* the Halfwidth-Katakana range is classified Proportional when the flag is set
\* and Fixed when it is not, whatever the providers declare.
C2_AmbiguousOutsideRangesFollowsFlag ==
    variant = "extended" =>
        \A q \in ambiguous :
            (~InBoxDrawing(q) /\ ~InHalfwidthKatakana(q)) =>
                getFontType(q) = IF flagEastAsia THEN fontTypeMPlus ELSE fontTypeFixed

\* An ambiguous rune outside both ranges that only Baekmuk declares is
\* classified Proportional under the flag.
C2_Witness ==
    /\ variant = "extended" /\ flagEastAsia /\ pc = "exited"
    /\ \E q \in ambiguous :
          /\ ~InBoxDrawing(q) /\ ~InHalfwidthKatakana(q)
          /\ baekmukGlyphOk(q) /\ ~mplusGlyphOk(q) /\ ~fixedGlyphOk(q)
          /\ getFontType(q) = fontTypeMPlus

\* The ordered rule lists of the specification: the result of the first rule
\* whose condition holds.
ExtendedRules(q) ==
    << [when |-> InBoxDrawing(q), give |-> fontTypeBaekmuk],
       [when |-> InHalfwidthKatakana(q), give |-> fontTypeMPlus],
       [when |-> q \in ambiguous /\ flagEastAsia, give |-> fontTypeMPlus],
       [when |-> q \in ambiguous /\ ~flagEastAsia, give |-> fontTypeFixed],
       [when |-> Declares(fontTypeFixed, q), give |-> fontTypeFixed],
       [when |-> Declares(fontTypeMPlus, q), give |-> fontTypeMPlus],
       [when |-> Declares(fontTypeBaekmuk, q), give |-> fontTypeBaekmuk],
       [when |-> TRUE, give |-> fontTypeNone] >>

LegacyRules(q) ==
    << [when |-> InBoxDrawing(q), give |-> fontTypeBaekmuk],
       [when |-> Declares(fontTypeMPlus, q), give |-> fontTypeMPlus],
       [when |-> Declares(fontTypeBaekmuk, q), give |-> fontTypeBaekmuk],
       [when |-> TRUE, give |-> fontTypeNone] >>

FirstMatch(rules) == rules[Least({i \in 1 .. Len(rules) : rules[i].when})].give

\* C3: getFontType is the first matching rule of the ordered list, in the
\* extended variant (Box-Drawing, Halfwidth-Katakana, East-Asian-Ambiguous by
\* the flag, then Fixed, Proportional, Supplementary, then None) and in the
\* legacy one (Box-Drawing, then Proportional, Supplementary, then None), and
\* the legacy one never gives Fixed.
C3_FirstMatchingRule ==
    \A q \in CheckedRunes :
        IF variant = "extended"
        THEN getFontType(q) = FirstMatch(ExtendedRules(q))
        ELSE /\ getFontType(q) = FirstMatch(LegacyRules(q))
             /\ getFontType(q) # fontTypeFixed

\* In the legacy variant a rune outside the ranges that all three providers
\* declare has been classified Proportional, and run has ended.
C3_Witness ==
    /\ pc = "exited" /\ variant = "legacy"
    /\ \E q \in Declared :
          /\ ~InBoxDrawing(q) /\ ~InHalfwidthKatakana(q)
          /\ fixedGlyphOk(q) /\ mplusGlyphOk(q) /\ baekmukGlyphOk(q)
          /\ getFontType(q) = fontTypeMPlus

\* C4: getGlyph never panics and looks the glyph up only in the provider that
\* getFontType selected: a glyph it returns is that provider's, and when that
\* provider does not define the rune it reports not found, whoever else
\* defines it; addGlyphs then draws nothing for the rune, and run ends
\* abnormally only after an I/O failure.
C4_LookupOnlyInSelected ==
    /\ \A q \in CheckedRunes :
          LET ft == getFontType(q)
              gl == getGlyph(q)
          IN /\ ~gl.panic
             /\ gl.ok => (gl.from = ft /\ Declares(ft, q))
             /\ ~Declares(ft, q) => ~gl.ok
             /\ ~gl.ok => \A d \in drawn : d.r # q
    /\ \A d \in drawn : getGlyph(d.r).ok /\ d.from = getFontType(d.r)
    /\ exit = "panic" => failed # {}

\* An ambiguous rune under the flag: M+ is selected and does not define it,
\* Fixed and Baekmuk do; nothing was drawn and run ended normally.
C4_Witness ==
    /\ variant = "extended" /\ flagEastAsia /\ pc = "exited" /\ exit = "ok"
    /\ \E q \in ambiguous :
          /\ getFontType(q) = fontTypeMPlus
          /\ ~mplusGlyphOk(q) /\ fixedGlyphOk(q) /\ baekmukGlyphOk(q)
          /\ ~getGlyph(q).ok
          /\ drawn = {} /\ img = {}

----------------------------------------------------------------------------
(* run and main: properties *)

Returned == (pc = "return" /\ defers = <<>>) \/ pc = "exited"

\* C5: once run has returned, the file and the gzip writer, where acquired,
\* have been closed; and the file is never closed while the gzip writer is
\* open.
C5_OrderedRelease ==
    /\ ~(fout = "closed" /\ cw = "open")
    /\ Returned => (fout # "open" /\ cw # "open")

\* The write failed, and both the gzip writer and the file were closed.
C5_Witness ==
    /\ pc = "exited" /\ "cw.Write" \in failed
    /\ cw = "closed" /\ fout = "closed"

\* C6: main ends normally only when no I/O step has failed: creating the
\* file, creating the gzip writer, the write, and closing either.
C6_AnyFailureIsFatal ==
    pc = "exited" => (exit = "ok" <=> failed = {})

----------------------------------------------------------------------------
(* The Atlas Compositor and the Packer: properties *)

\* bit n of byte v
BitSet(v, n) == (v \div Pow2(n)) % 2 = 1

\* The pixel indices a 1-bit buffer yields when unpacked: idx is there when
\* bit (7 - idx mod 8) of byte idx div 8 is set.
UnpackedBits(buf) ==
    {idx \in {8 * b + k : b \in DOMAIN buf, k \in 0 .. 7} :
        BitSet(ByteAt(buf, idx \div 8), 7 - (idx % 8))}

\* The pixels that are not zero in the payload of either variant.
PayloadPixels ==
    LET idxs == IF variant = "extended" THEN UnpackedBits(as)
                ELSE {b \div 4 : b \in {c \in DOMAIN as : as[c] # 0}}
    IN {<<idx % CanvasW, idx \div CanvasW>> : idx \in idxs}

Packed == pc \notin {"addGlyphs", "pack"}

\* the rune whose cell holds pixel p
CellRune(p) == (p[2] \div glyphHeight) * GridSize + (p[1] \div glyphWidth)

InRect(p, rect) ==
    /\ rect.x0 <= p[1] /\ p[1] < rect.x1
    /\ rect.y0 <= p[2] /\ p[2] < rect.y1

\* C7: after the 1-bit packing, bit (7 - idx mod 8) of byte idx div 8 is set
\* exactly for the indices idx = w*j + i of the pixels (i, j) with nonzero
\* alpha; the buffer has w*h/8 bytes and no two pixels share a bit.
C7_PackingRoundTrip ==
    (Packed /\ variant = "extended") =>
        /\ UnpackedBits(as) = {CanvasW * p[2] + p[1] : p \in img}
        /\ {<<idx % CanvasW, idx \div CanvasW>> : idx \in UnpackedBits(as)} = img
        /\ Cardinality(UnpackedBits(as)) = Cardinality(img)
        /\ \A b \in DOMAIN as : 0 <= b /\ b < BufferLen /\ as[b] \in 1 .. 255

\* Two glyphs with transparent pixels were drawn and packed: some byte of the
\* buffer has set and clear bits.
C7_Witness ==
    /\ Packed /\ variant = "extended"
    /\ Cardinality(drawn) = 2
    /\ \E b \in DOMAIN as : as[b] \notin {0, 255}
    /\ \E p \in img : p[2] > 0

\* The glyph keeps to the columns, and to the rows, of a cell by its width,
\* height and origin offset.
FitsColumns(g) ==
    IF variant = "extended" THEN g.Width <= glyphWidth
    ELSE 0 <= g.X /\ g.X + g.Width <= glyphWidth

FitsRows(g) ==
    IF variant = "extended" THEN g.Height <= glyphHeight
    ELSE -BaselineMargin <= g.Y /\ g.Y <= glyphHeight - BaselineMargin - g.Height

\* every glyph that getGlyph returns fits its cell
AllGlyphsFit ==
    \A q \in Declared :
        getGlyph(q).ok => (FitsColumns(getGlyph(q).g) /\ FitsRows(getGlyph(q).g))

InOwnColumns(d) ==
    /\ CellX(d.r) <= d.rect.x0
    /\ d.rect.x1 <= CellX(d.r) + glyphWidth

\* C8 as stated: every glyph, of whatever width and origin offset, is drawn
\* inside the column range of its own cell.
C8_EveryGlyphInOwnColumns ==
    \A d \in drawn : InOwnColumns(d)

\* C8 amended: a glyph no wider than the cell (legacy: with 0 <= X and
\* X + Width <= cell width) is drawn inside the column range of its own cell;
\* and when every glyph fits its cell in width and height, each opaque pixel
\* of the canvas lies in the cell of the one rune whose glyph was drawn over it.
C8_FittingGlyphInOwnColumns ==
    /\ \A d \in drawn : FitsColumns(d.g) => InOwnColumns(d)
    /\ AllGlyphsFit =>
          \A p \in img :
              /\ \E d \in drawn : d.r = CellRune(p) /\ InRect(p, d.rect)
              /\ \A d \in drawn : InRect(p, d.rect) =>
                    (d.r = CellRune(p) /\ d.from = getFontType(d.r))

\* Two fitting glyphs in neighbouring cells were drawn, the first as wide as
\* the cell.
C8_Witness ==
    /\ pc = "pack" /\ AllGlyphsFit
    /\ \E d \in drawn, e \in drawn :
          /\ e.r = d.r + 1
          /\ d.g.Width = glyphWidth
          /\ d.rect.x1 = e.rect.x0
          /\ \E p \in img : InRect(p, d.rect)
          /\ \E p \in img : InRect(p, e.rect)

\* C9 as stated: the cell of a rune for which getGlyph reports not found is
\* zero in the payload, whatever the glyphs of the other runes.
C9_MissingGlyphCellIsZero ==
    Packed => \A p \in PayloadPixels : getGlyph(CellRune(p)).ok

\* C9 amended: when every glyph fits its cell in width and height, the cell of
\* a rune for which getGlyph reports not found is zero in the payload.
C9_MissingGlyphCellIsZeroWhenFitting ==
    (Packed /\ AllGlyphsFit) => \A p \in PayloadPixels : getGlyph(CellRune(p)).ok

\* A fitting glyph was drawn and packed, and the rune of the next cell has
\* no glyph.
C9_Witness ==
    /\ Packed /\ AllGlyphsFit
    /\ \E d \in drawn :
          /\ ~getGlyph(d.r + 1).ok
          /\ d.g.Width = glyphWidth /\ d.g.Height = glyphHeight
          /\ \E p \in PayloadPixels : CellRune(p) = d.r

\* only the Fixed provider declares U+0041, as a 12 x 16 block at offset (0, 0)
OnlyFixedA ==
    /\ variant = "extended"
    /\ DOMAIN fixedTbl = {65} /\ DOMAIN mplusTbl = {} /\ DOMAIN baekmukTbl = {}
    /\ fixedTbl[65] = [Width |-> 12, Height |-> 16, X |-> 0, Y |-> 0]

\* C10: in the extended variant, when only the Fixed provider declares U+0041,
\* as a 12 x 16 opaque block at offset (0, 0), the payload has in each of rows
\* 0..15 exactly the bits of columns 780..791 set (index 3072*row + column),
\* and no other bit.
C10_EndToEnd ==
    (Packed /\ OnlyFixedA) =>
        /\ UnpackedBits(as) = {3072 * row + col : row \in 0 .. 15, col \in 780 .. 791}
        /\ as = [b \in {384 * row + 97 + c : row \in 0 .. 15, c \in 0 .. 1} |->
                    IF b % 384 = 97 THEN 15 ELSE 255]

\* The block of U+0041 was drawn and packed.
C10_Witness ==
    /\ Packed /\ OnlyFixedA /\ flagEastAsia
    /\ Cardinality(img) = 192

====
